---- MODULE Spec2Model ----
(***************************************************************************)
(* Model of the price-band pipeline of src/app.py (democrop dashboard):    *)
(* the rows of the spreadsheet are loaded into df, criar_faixas_preco      *)
(* builds the bands of every agent (faixas_por_agente, with descricao and  *)
(* label), and obter_faixa_preco labels every row (column faixa_preco).    *)
(*                                                                         *)
(* Prices are whole currency units (integers).  The two float tests of the *)
(* source are modelled by exact integer arithmetic:                        *)
(*   abs(p - preco) / preco <= 0.2      is   5 * abs(p - preco) <= preco   *)
(*   (atual - anterior) / anterior > 1.0 is  atual - anterior > anterior   *)
(* which agree with IEEE doubles for the integer prices used here.         *)
(* A Python exception is modelled by the field excecao of the value a call *)
(* returns ("nenhuma" when the call returns normally).                     *)
(***************************************************************************)
EXTENDS Integers, Sequences, FiniteSets, TLC

VARIABLES df, faixas_por_agente, faixa_preco, args, retorno, pc

\* the filter section of the page: the rows still selected (their index in
\* df), the selections made, the band selector offered, the final rows
VARIABLES df_temp, filtro, opcoes_faixa, df_filtrado

filtros == <<df_temp, filtro, opcoes_faixa, df_filtrado>>

vars == <<df, faixas_por_agente, faixa_preco, args, retorno, pc,
          df_temp, filtro, opcoes_faixa, df_filtrado>>

----------------------------------------------------------------------------
(* Bounds of the model and program constants *)

\* free rows of the generic dataset
MaxRows == 3
\* free rows of the Bacillus dataset
MaxRowsCenario == 5
\* rows of one block of identical records (reaches the path for > 10 prices)
TamLote == 10
\* "if len(precos) <= 10"
LimitePoucosDados == 10

Agentes == {"Bacillus", "Methylobacterium sp."}
\* 10/12 and 12/15 differ by exactly 20% of the larger anchor or of 10,
\* 15/30 is a gap of exactly 100%, 12/30 a gap above 100%
Precos == {0, 10, 12, 15, 30}
\* the prices a block of identical records may carry
PrecosLote == {0, 10}
\* the prices of the Bacillus scenario, and 15 (within 20% of 13)
PrecosCenario == {11, 13, 15, 21, 386, 13667}

\* agent identifiers that contain "methylobacterium", case-insensitively
ContemMethylobacterium(agente) == agente \in {"Methylobacterium sp."}

----------------------------------------------------------------------------
(* Python built-ins used by the source *)

abs(x) == IF x < 0 THEN -x ELSE x

Range(s) == {s[i] : i \in 1..Len(s)}

\* min(list) / max(list) of a non-empty list
min(s) == CHOOSE x \in Range(s) : \A y \in Range(s) : x <= y
max(s) == CHOOSE x \in Range(s) : \A y \in Range(s) : x >= y

RECURSIVE Inserir(_, _)
Inserir(x, s) ==
    IF s = <<>> THEN <<x>>
    ELSE IF x < Head(s) THEN <<x>> \o s
    ELSE <<Head(s)>> \o Inserir(x, Tail(s))

\* mutant of sorted: the list is left in its original order
sorted_sem_ordenar(s) == s

\* sorted(list): ascending, duplicates kept
RECURSIVE sorted(_)
sorted(s) == IF s = <<>> THEN <<>> ELSE Inserir(Head(s), sorted(Tail(s)))

\* f"{x:.2f}" of a whole number
Fmt2(x) == ToString(x) \o ".00"

----------------------------------------------------------------------------
(* criar_faixas_preco *)

Retorna(faixas) == [excecao |-> "nenhuma", faixas |-> faixas]
Levanta(e) == [excecao |-> e, faixas |-> <<>>]

Faixa(nome, mn, mx, valores) ==
    [nome |-> nome, min |-> mn, max |-> mx, valores |-> valores]

\* mutant of NomeFaixa: the bands are numbered from 0
NomeFaixa_de_zero(faixas) == "Faixa " \o ToString(Len(faixas))

\* f"Faixa {len(faixas) + 1}"
NomeFaixa(faixas) == "Faixa " \o ToString(Len(faixas) + 1)

\* mutant of similar: a tolerance of 10% instead of 20%
similar_dez_por_cento(p, preco) ==
    IF preco > 0 THEN 10 * abs(p - preco) <= preco ELSE TRUE

\* abs(p - preco) / preco <= 0.2, for preco /= 0
similar(p, preco) ==
    IF preco > 0 THEN 5 * abs(p - preco) <= preco ELSE TRUE

\* [p for p in precos if abs(p - preco) / preco <= 0.2]
valores_similares(precos, preco) ==
    SelectSeq(precos, LAMBDA p : similar(p, preco))

\* mutant of faixa_de_similares: min is the first similar value found
faixa_de_similares_min_primeiro(faixas, vs) ==
    Append(faixas, Faixa(NomeFaixa(faixas), vs[1], max(vs), vs))

\* mutant of faixa_de_similares: min and max exchanged
faixa_de_similares_trocados(faixas, vs) ==
    Append(faixas, Faixa(NomeFaixa(faixas), max(vs), min(vs), vs))

\* faixas.append({"nome": ..., "min": min(valores_similares), ...})
faixa_de_similares(faixas, vs) ==
    Append(faixas, Faixa(NomeFaixa(faixas), min(vs), max(vs), vs))

\* the loop "for preco in precos_ordenados" of the path for <= 10 prices
RECURSIVE poucos_dados(_, _, _, _, _)
poucos_dados(precos, precos_ordenados, i, faixas, valores_processados) ==
    IF i > Len(precos_ordenados) THEN Retorna(faixas)
    ELSE LET preco == precos_ordenados[i] IN
         IF preco \in valores_processados
         THEN poucos_dados(precos, precos_ordenados, i + 1, faixas,
                           valores_processados)
         ELSE IF preco = 0 THEN Levanta("ZeroDivisionError")
         ELSE LET vs == valores_similares(precos, preco) IN
              IF vs # <<>>
              THEN poucos_dados(precos, precos_ordenados, i + 1,
                       faixa_de_similares(faixas, vs),
                       valores_processados \cup Range(vs))
              ELSE poucos_dados(precos, precos_ordenados, i + 1, faixas,
                                valores_processados)

\* mutant of gap_maior: a gap of exactly 100% splits too
gap_maior_ou_igual(atual, anterior) ==
    IF anterior > 0 THEN atual - anterior >= anterior ELSE FALSE

\* gap = (atual - anterior) / anterior if anterior > 0 else 0;  gap > 1.0
gap_maior(atual, anterior) ==
    IF anterior > 0 THEN atual - anterior > anterior ELSE FALSE

\* mutant of faixa_de_gap: max taken from the first value of the band
faixa_de_gap_max_primeiro(faixas, inicio_faixa, faixa_atual) ==
    Append(faixas, Faixa(NomeFaixa(faixas), inicio_faixa,
                         faixa_atual[1], faixa_atual))

\* faixas.append({"nome": ..., "min": inicio_faixa, "max": faixa_atual[-1],
\*                "valores": faixa_atual.copy()})
faixa_de_gap(faixas, inicio_faixa, faixa_atual) ==
    Append(faixas, Faixa(NomeFaixa(faixas), inicio_faixa,
                         faixa_atual[Len(faixa_atual)], faixa_atual))

\* the loop "for i in range(1, len(precos_ordenados))" and the last band;
\* i is the 1-based position of atual
RECURSIVE muitos_dados(_, _, _, _, _)
muitos_dados(precos_ordenados, i, faixas, faixa_atual, inicio_faixa) ==
    IF i > Len(precos_ordenados)
    THEN IF faixa_atual # <<>>
         THEN Retorna(faixa_de_gap(faixas, inicio_faixa, faixa_atual))
         ELSE Retorna(faixas)
    ELSE LET atual == precos_ordenados[i]
             anterior == precos_ordenados[i - 1]
         IN IF gap_maior(atual, anterior)
            THEN muitos_dados(precos_ordenados, i + 1,
                     faixa_de_gap(faixas, inicio_faixa, faixa_atual),
                     <<atual>>, atual)
            ELSE muitos_dados(precos_ordenados, i + 1, faixas,
                              Append(faixa_atual, atual), inicio_faixa)

\* mutant of dados_unicos: only the empty list takes the single-band path
dados_unicos_so_vazio(precos) == Len(precos) < 1

\* "if len(precos) <= 1"
dados_unicos(precos) == Len(precos) <= 1

\* the single band of that path; min() of an empty list raises ValueError
faixa_unica(precos) ==
    IF precos = <<>> THEN Levanta("ValueError")
    ELSE Retorna(<<Faixa("Faixa Única", min(precos), max(precos), precos)>>)

criar_faixas_preco(precos, agente) ==
    IF dados_unicos(precos) THEN faixa_unica(precos)
    ELSE LET precos_ordenados == sorted(precos) IN
         IF Len(precos) <= LimitePoucosDados
         THEN poucos_dados(precos, precos_ordenados, 1, <<>>, {})
         ELSE muitos_dados(precos_ordenados, 2, <<>>,
                           <<precos_ordenados[1]>>, precos_ordenados[1])

----------------------------------------------------------------------------
(* faixas_por_agente and the column faixa_preco *)

Linha(agente, preco) == [agente_biologico |-> agente, preco |-> preco]

\* df[df['agente_biologico'] == agente]['preco'].tolist()
precos_agente(d, agente) ==
    LET sel == SelectSeq(d, LAMBDA r : r.agente_biologico = agente)
    IN [i \in 1..Len(sel) |-> sel[i].preco]

\* df['agente_biologico'].unique(): the agents in order of first appearance
RECURSIVE unique(_)
unique(d) ==
    IF d = <<>> THEN <<>>
    ELSE LET u == unique(SubSeq(d, 1, Len(d) - 1))
             a == d[Len(d)].agente_biologico
         IN IF a \in Range(u) THEN u ELSE Append(u, a)

\* mutant of descricao: the range form also when min = max
descricao_sempre_intervalo(faixa) ==
    "R$ " \o Fmt2(faixa.min) \o " - R$ " \o Fmt2(faixa.max)

\* "R$ {min:.2f}" if min == max, else "R$ {min:.2f} - R$ {max:.2f}"
descricao(faixa) ==
    IF faixa.min = faixa.max
    THEN "R$ " \o Fmt2(faixa.min)
    ELSE "R$ " \o Fmt2(faixa.min) \o " - R$ " \o Fmt2(faixa.max)

\* faixa['descricao'] = ...; faixa['label'] = f"{nome} ({descricao})"
Rotular(faixa) ==
    [nome |-> faixa.nome, min |-> faixa.min, max |-> faixa.max,
     valores |-> faixa.valores, descricao |-> descricao(faixa),
     label |-> faixa.nome \o " (" \o descricao(faixa) \o ")"]

rotular_faixas(faixas) == [k \in 1..Len(faixas) |-> Rotular(faixas[k])]

\* the loop "for agente in df['agente_biologico'].unique()": the table built
\* from the first k agents, and the exception that stopped it, if any
RECURSIVE construir(_, _, _)
construir(d, agentes, k) ==
    IF k = 0 THEN [excecao |-> "nenhuma", tabela |-> <<>>]
    ELSE LET ant == construir(d, agentes, k - 1) IN
         IF ant.excecao # "nenhuma" THEN ant
         ELSE LET agente == agentes[k]
                  r == criar_faixas_preco(precos_agente(d, agente), agente)
              IN IF r.excecao # "nenhuma"
                 THEN [excecao |-> r.excecao, tabela |-> ant.tabela]
                 ELSE [excecao |-> "nenhuma",
                       tabela |-> (agente :> rotular_faixas(r.faixas))
                                      @@ ant.tabela]

\* mutant of contem: the lower end of the interval is excluded
contem_sem_min(faixa, preco) == faixa.min < preco /\ preco <= faixa.max

\* faixa['min'] <= preco <= faixa['max']
contem(faixa, preco) == faixa.min <= preco /\ preco <= faixa.max

\* the scan "for faixa in faixas_por_agente[agente]" from band k on
RECURSIVE primeira_faixa(_, _, _)
primeira_faixa(faixas, preco, k) ==
    IF k > Len(faixas) THEN "Sem Faixa"
    ELSE IF contem(faixas[k], preco)
         THEN faixas[k].nome
         ELSE primeira_faixa(faixas, preco, k + 1)

obter_faixa_preco(tabela, row) ==
    IF row.agente_biologico \in DOMAIN tabela
    THEN primeira_faixa(tabela[row.agente_biologico], row.preco, 1)
    ELSE "Sem Faixa"

----------------------------------------------------------------------------
(* The state machine *)

\* a selection of a selectbox: the entry "Todos"/"Todas" or a value
Todos == [todos |-> TRUE, valor |-> "Todos"]
Todas == [todos |-> TRUE, valor |-> "Todas"]
Escolha(v) == [todos |-> FALSE, valor |-> v]

\* every selectbox at its first entry
SemFiltros ==
    [ano |-> Todos, mes |-> Todos, dia |-> Todos, estado |-> Todos,
     cidade |-> Todas, agente |-> Todos, faixa |-> Todas]

\* no band selector on the page
SemSeletor == [tipo |-> "nenhum", opcoes |-> {}]

SemRetorno == [excecao |-> "sem chamada", faixas |-> <<>>]
SemArgs == [precos |-> <<>>, agente |-> ""]

Init ==
    /\ df = <<>>
    /\ faixas_por_agente = <<>>
    /\ faixa_preco = <<>>
    /\ args = SemArgs
    /\ retorno = SemRetorno
    /\ pc = "carga"
    /\ df_temp = <<>>
    /\ filtro = SemFiltros
    /\ opcoes_faixa = SemSeletor
    /\ df_filtrado = <<>>

\* a block of TamLote identical records opens the dataset
TemLote(d) == Len(d) >= TamLote /\ \A i \in 1..TamLote : d[i] = d[1]
LinhasLivres(d) == IF TemLote(d) THEN Len(d) - TamLote ELSE Len(d)

\* one more record of the spreadsheet
CarregarLinha(A, P, n) ==
    /\ pc = "carga"
    /\ LinhasLivres(df) < n
    /\ \E a \in A, p \in P : df' = Append(df, Linha(a, p))
    /\ UNCHANGED <<faixas_por_agente, faixa_preco, args, retorno, pc>>
    /\ UNCHANGED filtros

\* TamLote identical records at the head of the spreadsheet
CarregarLote(A, P) ==
    /\ pc = "carga"
    /\ df = <<>>
    /\ \E a \in A, p \in P : df' = [i \in 1..TamLote |-> Linha(a, p)]
    /\ UNCHANGED <<faixas_por_agente, faixa_preco, args, retorno, pc>>
    /\ UNCHANGED filtros

\* lines 157-185: the band table and the column faixa_preco; an exception
\* reaches the "except Exception" of the script
Processar ==
    /\ pc = "carga"
    /\ LET r == construir(df, unique(df), Len(unique(df))) IN
       /\ faixas_por_agente' = r.tabela
       /\ IF r.excecao = "nenhuma"
          THEN /\ faixa_preco' =
                     [i \in 1..Len(df) |-> obter_faixa_preco(r.tabela, df[i])]
               /\ pc' = "pronto"
          ELSE /\ faixa_preco' = faixa_preco
               /\ pc' = "erro"
    /\ UNCHANGED <<df, args, retorno>>
    /\ UNCHANGED filtros

\* criar_faixas_preco called on the prices of one agent
Chamar ==
    /\ pc = "carga"
    /\ \E a \in Agentes :
           /\ args' = [precos |-> precos_agente(df, a), agente |-> a]
           /\ retorno' = criar_faixas_preco(precos_agente(df, a), a)
    /\ pc' = "chamada"
    /\ UNCHANGED <<df, faixas_por_agente, faixa_preco>>
    /\ UNCHANGED filtros

Next ==
    \/ CarregarLinha(Agentes, Precos, MaxRows)
    \/ CarregarLote(Agentes, PrecosLote)
    \/ Processar
    \/ Chamar

Spec == Init /\ [][Next]_vars

NextCenario ==
    \/ CarregarLinha({"Bacillus"}, PrecosCenario, MaxRowsCenario)
    \/ Processar
    \/ Chamar

SpecCenario == Init /\ [][NextCenario]_vars

----------------------------------------------------------------------------
(* The filter chain (lines 209-339) *)

\* records of the spreadsheet the filters are exercised on
MaxRegistros == 3

Registro(ano, mes, dia, estado, cidade, agente, preco) ==
    [ano |-> ano, mes |-> mes, dia |-> dia, estado |-> estado,
     cidade |-> cidade, agente_biologico |-> agente, preco |-> preco]

\* Bacillus at 12 and 15 gets two bands that share 12, at 12 and 30 two
\* bands in different years; every column takes two values
Registros ==
    { Registro(2023, 1, 5, "SP", "Campinas", "Bacillus", 12),
      Registro(2024, 1, 5, "SP", "Campinas", "Bacillus", 15),
      Registro(2024, 2, 9, "MG", "Uberaba", "Bacillus", 30),
      Registro(2023, 2, 5, "SP", "Santos", "Methylobacterium sp.", 10),
      Registro(2024, 1, 9, "MG", "Uberaba", "Methylobacterium sp.", 12) }

\* the value of a column in the row of index i
Coluna(i, coluna) ==
    IF coluna = "faixa_preco" THEN faixa_preco[i] ELSE df[i][coluna]

\* obter_opcoes_filtro: the entry "Todos"/"Todas" and the values of the
\* column in the dataframe (their display order is not modelled)
obter_opcoes_filtro(dataframe, coluna, texto_todos) ==
    {texto_todos}
        \cup {Escolha(Coluna(dataframe[k], coluna)) : k \in 1..Len(dataframe)}

\* mutant of filtrar: the rows are taken from df instead of df_temp
filtrar_do_df(dataframe, coluna, sel) ==
    IF sel.todos THEN dataframe
    ELSE SelectSeq([k \in 1..Len(df) |-> k],
                   LAMBDA i : Coluna(i, coluna) = sel.valor)

\* if filtro != "Todos": df_temp = df_temp[df_temp[coluna] == filtro]
filtrar(dataframe, coluna, sel) ==
    IF sel.todos THEN dataframe
    ELSE SelectSeq(dataframe, LAMBDA i : Coluna(i, coluna) = sel.valor)

\* one "with col:" block: the selectbox of a column and its restriction
Selecionar(de, para, dataframe, coluna, campo, texto_todos) ==
    /\ pc = de
    /\ \E sel \in obter_opcoes_filtro(dataframe, coluna, texto_todos) :
           /\ filtro' = [filtro EXCEPT ![campo] = sel]
           /\ df_temp' = filtrar(dataframe, coluna, sel)
    /\ pc' = para
    /\ UNCHANGED <<df, faixas_por_agente, faixa_preco, args, retorno,
                   opcoes_faixa, df_filtrado>>

\* df_temp = df.copy() and the filter of the year
FiltrarAno ==
    Selecionar("pronto", "mes", [k \in 1..Len(df) |-> k], "ano", "ano", Todos)

FiltrarMes == Selecionar("mes", "dia", df_temp, "mes", "mes", Todos)

FiltrarDia == Selecionar("dia", "estado", df_temp, "dia", "dia", Todos)

FiltrarEstado ==
    Selecionar("estado", "cidade", df_temp, "estado", "estado", Todos)

FiltrarCidade ==
    Selecionar("cidade", "agente", df_temp, "cidade", "cidade", Todas)

FiltrarAgente ==
    Selecionar("agente", "faixa", df_temp, "agente_biologico", "agente",
               Todos)

\* mutant of multiplas_faixas: a single band is enough for the selector
multiplas_faixas_ou_uma(faixas_disponiveis) == Len(faixas_disponiveis) >= 1

\* if len(faixas_disponiveis) > 1
multiplas_faixas(faixas_disponiveis) == Len(faixas_disponiveis) > 1

\* the first band whose label is the selected one
faixa_selecionada(faixas_disponiveis, label) ==
    LET M == {k \in 1..Len(faixas_disponiveis) :
                 faixas_disponiveis[k].label = label}
    IN faixas_disponiveis[CHOOSE k \in M : \A j \in M : k <= j]

\* df_temp[(df_temp['preco'] >= min) & (df_temp['preco'] <= max)]
filtrar_intervalo(dataframe, faixa) ==
    SelectSeq(dataframe,
              LAMBDA i : df[i].preco >= faixa.min /\ df[i].preco <= faixa.max)

\* the band selector of the selected agent (lines 306-326)
FaixaDoAgente ==
    LET faixas_disponiveis == faixas_por_agente[filtro.agente.valor] IN
    IF multiplas_faixas(faixas_disponiveis)
    THEN /\ opcoes_faixa' =
                [tipo |-> "agente",
                 opcoes |-> {Todas} \cup
                     {Escolha(faixas_disponiveis[k].label) :
                          k \in 1..Len(faixas_disponiveis)}]
         /\ \E sel \in opcoes_faixa'.opcoes :
                /\ filtro' = [filtro EXCEPT !.faixa = sel]
                /\ df_temp' =
                       IF sel.todos THEN df_temp
                       ELSE filtrar_intervalo(df_temp,
                                faixa_selecionada(faixas_disponiveis,
                                                  sel.valor))
    ELSE /\ opcoes_faixa' = SemSeletor
         /\ UNCHANGED <<filtro, df_temp>>

\* the general band selector (lines 328-336)
FaixaGeral ==
    LET opcoes_faixa_geral ==
            obter_opcoes_filtro(df_temp, "faixa_preco", Todas)
    IN IF Cardinality(opcoes_faixa_geral) > 2
       THEN /\ opcoes_faixa' = [tipo |-> "geral",
                                opcoes |-> opcoes_faixa_geral]
            /\ \E sel \in opcoes_faixa_geral :
                   /\ filtro' = [filtro EXCEPT !.faixa = sel]
                   /\ df_temp' = filtrar(df_temp, "faixa_preco", sel)
       ELSE /\ opcoes_faixa' = SemSeletor
            /\ UNCHANGED <<filtro, df_temp>>

\* the band column of the filters and "df_filtrado = df_temp"
FiltrarFaixa ==
    /\ pc = "faixa"
    /\ IF ~filtro.agente.todos
          /\ filtro.agente.valor \in DOMAIN faixas_por_agente
       THEN FaixaDoAgente
       ELSE FaixaGeral
    /\ df_filtrado' = df_temp'
    /\ pc' = "filtrado"
    /\ UNCHANGED <<df, faixas_por_agente, faixa_preco, args, retorno>>

\* one more record of the spreadsheet, with its date and place
CarregarRegistro ==
    /\ pc = "carga"
    /\ Len(df) < MaxRegistros
    /\ \E r \in Registros : df' = Append(df, r)
    /\ UNCHANGED <<faixas_por_agente, faixa_preco, args, retorno, pc>>
    /\ UNCHANGED filtros

NextFiltros ==
    \/ CarregarRegistro
    \/ Processar
    \/ FiltrarAno
    \/ FiltrarMes
    \/ FiltrarDia
    \/ FiltrarEstado
    \/ FiltrarCidade
    \/ FiltrarAgente
    \/ FiltrarFaixa

SpecFiltros == Init /\ [][NextFiltros]_vars

----------------------------------------------------------------------------
(* Vocabulary of the properties *)

AgentesDe(d) == {d[i].agente_biologico : i \in 1..Len(d)}

TodosPositivos(precos) == \A i \in 1..Len(precos) : precos[i] > 0

\* number of occurrences of v in the list s
Ocorrencias(s, v) == Cardinality({i \in 1..Len(s) : s[i] = v})

MesmoMultiset(s, t) ==
    /\ Len(s) = Len(t)
    /\ \A v \in Range(s) \cup Range(t) : Ocorrencias(s, v) = Ocorrencias(t, v)

RECURSIVE Concatenar(_, _)
Concatenar(faixas, k) ==
    IF k = 0 THEN <<>> ELSE Concatenar(faixas, k - 1) \o faixas[k].valores

\* bands whose interval contains preco
FaixasQueContem(faixas, preco) ==
    {k \in 1..Len(faixas) : faixas[k].min <= preco /\ preco <= faixas[k].max}

Menor(S) == CHOOSE k \in S : \A j \in S : k <= j

----------------------------------------------------------------------------
(* C1 *)

\* C1: in a processed dataset every row of an agent whose prices are all
\* positive has a price inside the [min, max] of some band of that agent's
\* non-empty entry of faixas_por_agente, and its label is not "Sem Faixa".
C1_Coverage ==
    pc = "pronto" =>
        \A i \in 1..Len(df) :
            LET a == df[i].agente_biologico IN
            TodosPositivos(precos_agente(df, a)) =>
                /\ a \in DOMAIN faixas_por_agente
                /\ faixas_por_agente[a] # <<>>
                /\ FaixasQueContem(faixas_por_agente[a], df[i].preco) # {}
                /\ faixa_preco[i] # "Sem Faixa"

\* a processed dataset with an agent of > 10 positive prices in two bands
\* and an agent of 2..10 positive prices in two bands
C1_Witness ==
    /\ pc = "pronto"
    /\ \E a \in DOMAIN faixas_por_agente :
           /\ Len(precos_agente(df, a)) > LimitePoucosDados
           /\ TodosPositivos(precos_agente(df, a))
           /\ Len(faixas_por_agente[a]) >= 2
    /\ \E a \in DOMAIN faixas_por_agente :
           /\ Len(precos_agente(df, a)) \in 2..LimitePoucosDados
           /\ TodosPositivos(precos_agente(df, a))
           /\ Len(faixas_por_agente[a]) >= 2

----------------------------------------------------------------------------
(* C2 *)

\* C2: a call with 2..10 positive prices returns bands no two of which share
\* a member value.
C2_Disjoint ==
    (/\ pc = "chamada"
     /\ Len(args.precos) >= 2
     /\ Len(args.precos) <= LimitePoucosDados
     /\ TodosPositivos(args.precos)) =>
        /\ retorno.excecao = "nenhuma"
        /\ \A j, k \in 1..Len(retorno.faixas) :
               j # k => Range(retorno.faixas[j].valores)
                            \cap Range(retorno.faixas[k].valores) = {}

----------------------------------------------------------------------------
(* C3 *)

\* C3: for an agent with > 10 positive prices the bands are consecutive
\* segments of the ascending list of its prices holding every price once,
\* min is strictly ascending, the gap between consecutive bands exceeds 100%
\* of the earlier band's max, and adjacent values inside a band are at most
\* 100% apart.
C3_Contiguity ==
    pc = "pronto" =>
        \A a \in DOMAIN faixas_por_agente :
            LET precos == precos_agente(df, a)
                fs == faixas_por_agente[a]
                todos == Concatenar(fs, Len(fs))
            IN (Len(precos) > LimitePoucosDados /\ TodosPositivos(precos)) =>
                /\ MesmoMultiset(todos, precos)
                /\ \A i \in 1..(Len(todos) - 1) : todos[i] <= todos[i + 1]
                /\ \A k \in 1..Len(fs) :
                       /\ fs[k].valores # <<>>
                       /\ fs[k].min = fs[k].valores[1]
                       /\ fs[k].max = fs[k].valores[Len(fs[k].valores)]
                       /\ \A i \in 1..(Len(fs[k].valores) - 1) :
                              fs[k].valores[i + 1] - fs[k].valores[i]
                                  <= fs[k].valores[i]
                /\ \A k \in 1..(Len(fs) - 1) :
                       /\ fs[k].min < fs[k + 1].min
                       /\ fs[k + 1].min - fs[k].max > fs[k].max

\* an agent with > 10 positive prices split into two bands, the first of
\* which spans more than one value
C3_Witness ==
    /\ pc = "pronto"
    /\ \E a \in DOMAIN faixas_por_agente :
           /\ Len(precos_agente(df, a)) > LimitePoucosDados
           /\ TodosPositivos(precos_agente(df, a))
           /\ Len(faixas_por_agente[a]) = 2
           /\ faixas_por_agente[a][1].min < faixas_por_agente[a][1].max

----------------------------------------------------------------------------
(* C4 *)

\* C4: an agent whose identifier contains "methylobacterium" has exactly one
\* band, from the minimum to the maximum of all its prices.
C4_Methylobacterium ==
    pc = "pronto" =>
        \A a \in DOMAIN faixas_por_agente :
            ContemMethylobacterium(a) =>
                /\ Len(faixas_por_agente[a]) = 1
                /\ faixas_por_agente[a][1].min = min(precos_agente(df, a))
                /\ faixas_por_agente[a][1].max = max(precos_agente(df, a))

----------------------------------------------------------------------------
(* C5 *)

\* the label the scan must give: the nome of the lowest-numbered band whose
\* interval contains the price, "Sem Faixa" without entry or without band
RotuloEsperado(tabela, agente, preco) ==
    IF agente \notin DOMAIN tabela THEN "Sem Faixa"
    ELSE LET M == FaixasQueContem(tabela[agente], preco) IN
         IF M = {} THEN "Sem Faixa" ELSE tabela[agente][Menor(M)].nome

PrecosBacillus == <<11, 13, 21, 386, 13667>>

\* C5: every row is labelled with the nome of the first band, in stored
\* order, whose [min, max] contains its price (both ends inclusive), any
\* agent/price pair without entry or without containing band gets
\* "Sem Faixa", and in the Bacillus scenario the row of price 13 is labelled
\* with band 1, the band [11, 13].
C5_Classification ==
    pc = "pronto" =>
        /\ \A i \in 1..Len(df) :
               faixa_preco[i] = RotuloEsperado(faixas_por_agente,
                                    df[i].agente_biologico, df[i].preco)
        /\ \A a \in Agentes, p \in Precos \cup PrecosCenario :
               obter_faixa_preco(faixas_por_agente, Linha(a, p))
                   = RotuloEsperado(faixas_por_agente, a, p)
        /\ MesmoMultiset(precos_agente(df, "Bacillus"), PrecosBacillus) =>
               /\ faixas_por_agente["Bacillus"][1].nome = "Faixa 1"
               /\ faixas_por_agente["Bacillus"][1].min = 11
               /\ faixas_por_agente["Bacillus"][1].max = 13
               /\ \A i \in 1..Len(df) :
                      df[i].preco = 13 => faixa_preco[i] = "Faixa 1"

\* the Bacillus scenario, processed
C5_Witness ==
    /\ pc = "pronto"
    /\ precos_agente(df, "Bacillus") = PrecosBacillus
    /\ faixa_preco[2] = "Faixa 1"

\* a processed dataset in which a price lies in the interval of two bands
C5_Overlap ==
    /\ pc = "pronto"
    /\ \E i \in 1..Len(df) :
           Cardinality(FaixasQueContem(
               faixas_por_agente[df[i].agente_biologico], df[i].preco)) >= 2

----------------------------------------------------------------------------
(* C6 *)

\* C6: a call whose price list contains a price of exactly 0 returns a band
\* sequence and raises nothing.
C6_ZeroGuard ==
    (pc = "chamada" /\ 0 \in Range(args.precos)) =>
        retorno.excecao = "nenhuma"

----------------------------------------------------------------------------
(* C7 *)

\* C7: a call with exactly one price v returns exactly one band, named
\* "Faixa Única", with min = max = v and the input as members; so does the
\* entry of an agent with one row in a processed dataset.
C7_SingleBand ==
    /\ (pc = "chamada" /\ Len(args.precos) = 1) =>
           retorno = [excecao |-> "nenhuma",
                      faixas |-> << [nome |-> "Faixa Única",
                                     min |-> args.precos[1],
                                     max |-> args.precos[1],
                                     valores |-> args.precos] >>]
    /\ pc = "pronto" =>
           \A a \in DOMAIN faixas_por_agente :
               Len(precos_agente(df, a)) = 1 =>
                   /\ Len(faixas_por_agente[a]) = 1
                   /\ faixas_por_agente[a][1].nome = "Faixa Única"
                   /\ faixas_por_agente[a][1].min = precos_agente(df, a)[1]
                   /\ faixas_por_agente[a][1].max = precos_agente(df, a)[1]
                   /\ faixas_por_agente[a][1].valores = precos_agente(df, a)

\* a call with one positive price has returned
C7_Witness ==
    /\ pc = "chamada"
    /\ Len(args.precos) = 1
    /\ args.precos[1] > 0
    /\ Len(retorno.faixas) = 1

----------------------------------------------------------------------------
(* C8 *)

\* C8: a call with an empty price list returns an empty band sequence and
\* raises nothing.
C8_Empty ==
    (pc = "chamada" /\ args.precos = <<>>) =>
        /\ retorno.excecao = "nenhuma"
        /\ retorno.faixas = <<>>

----------------------------------------------------------------------------
(* C9 *)

\* s with the values at positions i and i + 1 exchanged
Trocar(s, i) ==
    [j \in 1..Len(s) |-> IF j = i THEN s[i + 1]
                          ELSE IF j = i + 1 THEN s[i] ELSE s[j]]

Inverter(s) == [j \in 1..Len(s) |-> s[Len(s) + 1 - j]]

\* the reversal of s and every exchange of two neighbours: the exchanges
\* generate every order of the same multiset
Rearranjos(s) == {Inverter(s)} \cup {Trocar(s, i) : i \in 1..(Len(s) - 1)}

Visivel(faixas) ==
    [k \in 1..Len(faixas) |->
        [nome |-> faixas[k].nome, min |-> faixas[k].min,
         max |-> faixas[k].max, descricao |-> faixas[k].descricao,
         label |-> faixas[k].label]]

\* C9: the same prices in another order give the same outcome: the same
\* number of bands with, position by position, the same nome, min, max,
\* descricao and label (and the same exception, when one is raised).
C9_OrderIndependent ==
    /\ pc = "chamada" =>
           \A q \in Rearranjos(args.precos) :
               LET r == criar_faixas_preco(q, args.agente) IN
               /\ r.excecao = retorno.excecao
               /\ Visivel(rotular_faixas(r.faixas))
                      = Visivel(rotular_faixas(retorno.faixas))
    /\ pc = "pronto" =>
           \A a \in DOMAIN faixas_por_agente :
               \A q \in Rearranjos(precos_agente(df, a)) :
                   LET r == criar_faixas_preco(q, a) IN
                   /\ r.excecao = "nenhuma"
                   /\ Visivel(rotular_faixas(r.faixas))
                          = Visivel(faixas_por_agente[a])

\* a processed agent whose prices are not in ascending order, in two bands
C9_Witness ==
    /\ pc = "pronto"
    /\ \E a \in DOMAIN faixas_por_agente :
           /\ \E i \in 1..(Len(precos_agente(df, a)) - 1) :
                  precos_agente(df, a)[i] > precos_agente(df, a)[i + 1]
           /\ Len(faixas_por_agente[a]) >= 2

----------------------------------------------------------------------------
(* C10 *)

\* C10: every band of faixas_por_agente has descricao "R$ {min:.2f}" when
\* min = max and "R$ {min:.2f} - R$ {max:.2f}" otherwise, and label
\* "{nome} ({descricao})"; min = max = 11 gives "R$ 11.00" and 11 to 21
\* gives "R$ 11.00 - R$ 21.00".
C10_Labels ==
    /\ pc = "pronto" =>
           \A a \in DOMAIN faixas_por_agente :
               \A k \in 1..Len(faixas_por_agente[a]) :
                   LET f == faixas_por_agente[a][k] IN
                   /\ f.min = f.max =>
                          f.descricao = "R$ " \o ToString(f.min) \o ".00"
                   /\ f.min # f.max =>
                          f.descricao = "R$ " \o ToString(f.min) \o ".00"
                              \o " - R$ " \o ToString(f.max) \o ".00"
                   /\ f.label = f.nome \o " (" \o f.descricao \o ")"
                   /\ (f.min = 11 /\ f.max = 11) => f.descricao = "R$ 11.00"
                   /\ (f.min = 11 /\ f.max = 13) =>
                          f.descricao = "R$ 11.00 - R$ 13.00"
    /\ Rotular(Faixa("Faixa 1", 11, 21, <<11, 21>>)).descricao
           = "R$ 11.00 - R$ 21.00"

\* a processed dataset with the bands "R$ 11.00 - R$ 13.00" and "R$ 21.00"
C10_Witness ==
    /\ pc = "pronto"
    /\ "Bacillus" \in DOMAIN faixas_por_agente
    /\ \E k \in 1..Len(faixas_por_agente["Bacillus"]) :
           faixas_por_agente["Bacillus"][k].label = "Faixa 2 (R$ 21.00)"
    /\ \E k \in 1..Len(faixas_por_agente["Bacillus"]) :
           faixas_por_agente["Bacillus"][k].label
               = "Faixa 1 (R$ 11.00 - R$ 13.00)"

----------------------------------------------------------------------------
(* C11 *)

\* C11: the call with the prices [11, 13, 21, 386, 13667] returns exactly
\* four bands, in this order: [11, 13] with members 11 and 13, [21, 21],
\* [386, 386] and [13667, 13667]; no two of them share a member.
C11_Bacillus ==
    (pc = "chamada" /\ args.precos = PrecosBacillus) =>
        /\ retorno.excecao = "nenhuma"
        /\ retorno.faixas =
               << [nome |-> "Faixa 1", min |-> 11, max |-> 13,
                   valores |-> <<11, 13>>],
                  [nome |-> "Faixa 2", min |-> 21, max |-> 21,
                   valores |-> <<21>>],
                  [nome |-> "Faixa 3", min |-> 386, max |-> 386,
                   valores |-> <<386>>],
                  [nome |-> "Faixa 4", min |-> 13667, max |-> 13667,
                   valores |-> <<13667>>] >>
        /\ \A j, k \in 1..Len(retorno.faixas) :
               j # k => Range(retorno.faixas[j].valores)
                            \cap Range(retorno.faixas[k].valores) = {}

\* the call with the prices of the scenario has returned
C11_Witness ==
    /\ pc = "chamada"
    /\ args.precos = PrecosBacillus
    /\ Len(retorno.faixas) = 4

----------------------------------------------------------------------------
(* C12 *)

\* C12: every band returned for a non-empty price list has min <= max, min
\* and max among its members, and only values of the input as members.
C12_WellFormed ==
    (pc = "chamada" /\ args.precos # <<>>) =>
        \A k \in 1..Len(retorno.faixas) :
            LET f == retorno.faixas[k] IN
            /\ f.min <= f.max
            /\ f.min \in Range(f.valores)
            /\ f.max \in Range(f.valores)
            /\ Range(f.valores) \subseteq Range(args.precos)

\* a call on 2..10 prices that returned a band with min < max
C12_Witness ==
    /\ pc = "chamada"
    /\ Len(args.precos) \in 2..LimitePoucosDados
    /\ \E k \in 1..Len(retorno.faixas) :
           retorno.faixas[k].min < retorno.faixas[k].max

\* a call on > 10 prices that returned a band with min < max
C12_WitnessMuitos ==
    /\ pc = "chamada"
    /\ Len(args.precos) > LimitePoucosDados
    /\ \E k \in 1..Len(retorno.faixas) :
           retorno.faixas[k].min < retorno.faixas[k].max

----------------------------------------------------------------------------
(* C15 *)

\* the values that are members of the bands before band k
Reclamados(faixas, k) ==
    UNION {Range(faixas[j].valores) : j \in 1..(k - 1)}

\* the smallest price no band before band k has claimed
Ancora(precos, faixas, k) ==
    LET livres == Range(precos) \ Reclamados(faixas, k)
    IN CHOOSE v \in livres : \A w \in livres : v <= w

\* C15: a call with n >= 2 prices that returns names its i-th band
\* "Faixa i"; with n <= 10 band k is built around the smallest price no
\* earlier band has claimed (its members are the prices within 20% of that
\* anchor), the anchors ascend, and no price is left unclaimed.
C15_Sequential ==
    (pc = "chamada" /\ Len(args.precos) >= 2 /\ retorno.excecao = "nenhuma")
    =>
        LET fs == retorno.faixas
            precos == args.precos
        IN /\ fs # <<>>
           /\ \A k \in 1..Len(fs) : fs[k].nome = "Faixa " \o ToString(k)
           /\ \A j, k \in 1..Len(fs) : j # k => fs[j].nome # fs[k].nome
           /\ Len(precos) <= LimitePoucosDados =>
                  /\ \A k \in 1..Len(fs) :
                         /\ Range(precos) \ Reclamados(fs, k) # {}
                         /\ fs[k].valores =
                                SelectSeq(precos,
                                    LAMBDA p :
                                        5 * abs(p - Ancora(precos, fs, k))
                                            <= Ancora(precos, fs, k))
                  /\ \A k \in 1..(Len(fs) - 1) :
                         Ancora(precos, fs, k) < Ancora(precos, fs, k + 1)
                  /\ Range(precos) \ Reclamados(fs, Len(fs) + 1) = {}

\* a call on 2..10 prices that returned three bands
C15_Witness ==
    /\ pc = "chamada"
    /\ Len(args.precos) \in 2..LimitePoucosDados
    /\ Len(retorno.faixas) = 3

\* a call on > 10 prices that returned two bands
C15_WitnessMuitos ==
    /\ pc = "chamada"
    /\ Len(args.precos) > LimitePoucosDados
    /\ Len(retorno.faixas) = 2

----------------------------------------------------------------------------
(* C17 *)

\* C17: for every agent with positive prices and every band of it, the
\* agent's prices inside [min, max] are exactly the members of the band,
\* with the same number of occurrences.
C17_IntervalIsMembership ==
    pc = "pronto" =>
        \A a \in DOMAIN faixas_por_agente :
            LET precos == precos_agente(df, a) IN
            TodosPositivos(precos) =>
                \A k \in 1..Len(faixas_por_agente[a]) :
                    LET f == faixas_por_agente[a][k] IN
                    MesmoMultiset(
                        SelectSeq(precos,
                                  LAMBDA p : f.min <= p /\ p <= f.max),
                        f.valores)

\* a processed agent of 2..10 positive prices, not in ascending order, with
\* a band of more than one value, next to an agent of > 10 positive prices
\* in two bands
C17_Witness ==
    /\ pc = "pronto"
    /\ \E a \in DOMAIN faixas_por_agente :
           /\ Len(precos_agente(df, a)) \in 2..LimitePoucosDados
           /\ TodosPositivos(precos_agente(df, a))
           /\ precos_agente(df, a)[1] > precos_agente(df, a)[2]
           /\ \E k \in 1..Len(faixas_por_agente[a]) :
                  faixas_por_agente[a][k].min < faixas_por_agente[a][k].max
    /\ \E a \in DOMAIN faixas_por_agente :
           /\ Len(precos_agente(df, a)) > LimitePoucosDados
           /\ TodosPositivos(precos_agente(df, a))
           /\ Len(faixas_por_agente[a]) = 2

----------------------------------------------------------------------------
(* C19 *)

\* C19: along the bands returned for 2..10 positive prices min never
\* decreases and max strictly increases, so the first band whose interval
\* contains a price is the lowest one (the one of least max) that does.
C19_OrderedByValue ==
    (/\ pc = "chamada"
     /\ Len(args.precos) >= 2
     /\ Len(args.precos) <= LimitePoucosDados
     /\ TodosPositivos(args.precos)) =>
        LET fs == retorno.faixas IN
        /\ retorno.excecao = "nenhuma"
        /\ \A k \in 1..(Len(fs) - 1) :
               /\ fs[k].min <= fs[k + 1].min
               /\ fs[k].max < fs[k + 1].max
        /\ \A i \in 1..Len(args.precos) :
               LET p == args.precos[i]
                   M == FaixasQueContem(fs, p)
               IN \E k \in M :
                      /\ \A j \in M : fs[k].max <= fs[j].max
                      /\ primeira_faixa(fs, p, 1) = fs[k].nome

\* a call on prices given in descending order that returned two bands
\* sharing a price
C19_Witness ==
    /\ pc = "chamada"
    /\ Len(args.precos) \in 2..LimitePoucosDados
    /\ TodosPositivos(args.precos)
    /\ args.precos[1] > args.precos[2]
    /\ Len(retorno.faixas) >= 2
    /\ \E i \in 1..Len(args.precos) :
           Cardinality(FaixasQueContem(retorno.faixas, args.precos[i])) = 2

----------------------------------------------------------------------------
(* Vocabulary of the filter properties *)

\* row i satisfies the selection made on a column
Atende(i, coluna, sel) == sel.todos \/ df[i][coluna] = sel.valor

\* row i satisfies the selections of year, month, day, state, city, agent
AtendeAteAgente(i) ==
    /\ Atende(i, "ano", filtro.ano)
    /\ Atende(i, "mes", filtro.mes)
    /\ Atende(i, "dia", filtro.dia)
    /\ Atende(i, "estado", filtro.estado)
    /\ Atende(i, "cidade", filtro.cidade)
    /\ Atende(i, "agente_biologico", filtro.agente)

\* the bands of the selected agent that carry the selected label
FaixasEscolhidas ==
    LET fs == faixas_por_agente[filtro.agente.valor]
    IN {fs[k] : k \in {j \in 1..Len(fs) : fs[j].label = filtro.faixa.valor}}

\* row i satisfies the band selection: by price interval under the selector
\* of an agent, by band name under the general selector
AtendeFaixa(i) ==
    \/ filtro.faixa.todos
    \/ /\ opcoes_faixa.tipo = "agente"
       /\ \E f \in FaixasEscolhidas :
              f.min <= df[i].preco /\ df[i].preco <= f.max
    \/ /\ opcoes_faixa.tipo = "geral"
       /\ faixa_preco[i] = filtro.faixa.valor

\* the indices, in ascending order, of the rows of df that satisfy P
Linhas(P(_)) == SelectSeq([k \in 1..Len(df) |-> k], P)

----------------------------------------------------------------------------
(* C13 *)

\* C13: on a non-empty dataset, after selections made in order, each among
\* the options its selectbox offers, df_filtrado is never empty.
C13_NeverEmpty ==
    (pc = "filtrado" /\ df # <<>>) => df_filtrado # <<>>

----------------------------------------------------------------------------
(* C14 *)

\* C14: with a specific agent selected, the band selector of the agent is
\* offered (with "Todas" and the labels of its bands) exactly when the agent
\* has more than one band; with a single band no selector is offered and
\* the rows are those left by the agent filter.
C14_SelectorVisibility ==
    (pc = "filtrado" /\ ~filtro.agente.todos) =>
        LET fs == faixas_por_agente[filtro.agente.valor] IN
        /\ opcoes_faixa.tipo = "agente" <=> Len(fs) > 1
        /\ opcoes_faixa.tipo # "geral"
        /\ Len(fs) > 1 =>
               opcoes_faixa.opcoes =
                   {Todas} \cup {Escolha(fs[k].label) : k \in 1..Len(fs)}
        /\ Len(fs) <= 1 =>
               /\ opcoes_faixa = SemSeletor
               /\ filtro.faixa.todos
               /\ df_filtrado = Linhas(AtendeAteAgente)

\* an agent with one band and rows left is selected: no selector
C14_Witness ==
    /\ pc = "filtrado"
    /\ ~filtro.agente.todos
    /\ Len(faixas_por_agente[filtro.agente.valor]) = 1
    /\ Len(df) = MaxRegistros
    /\ opcoes_faixa.tipo = "nenhum"

\* an agent with two bands is selected and one of them chosen
C14_WitnessMultiplas ==
    /\ pc = "filtrado"
    /\ ~filtro.agente.todos
    /\ Len(faixas_por_agente[filtro.agente.valor]) = 2
    /\ opcoes_faixa.tipo = "agente"
    /\ ~filtro.faixa.todos

----------------------------------------------------------------------------
(* C16 *)

EtapasDeFiltro == {"mes", "dia", "estado", "cidade", "agente", "faixa",
                   "filtrado"}

\* a step of the chain leaves no row that the step before had dropped
SoEstreita ==
    pc \in EtapasDeFiltro => Range(df_temp') \subseteq Range(df_temp)

\* C16: at every step of the chain the rows kept are exactly the rows of
\* the dataset that satisfy every selection made so far that is not
\* "Todos"/"Todas", in their original order; df_filtrado is that set after
\* the last step, the whole dataset when every selection is "Todos"/"Todas";
\* and no step adds a row to the rows the previous step left.
C16_Conjunction ==
    /\ [](pc \in EtapasDeFiltro =>
              df_temp = Linhas(LAMBDA i : AtendeAteAgente(i) /\ AtendeFaixa(i)))
    /\ [](pc = "filtrado" =>
              /\ df_filtrado =
                     Linhas(LAMBDA i : AtendeAteAgente(i) /\ AtendeFaixa(i))
              /\ filtro = SemFiltros =>
                     df_filtrado = [k \in 1..Len(df) |-> k])
    /\ [][SoEstreita]_vars

\* three records, a year, a state, an agent and a band of it selected, and
\* a row left
C16_Witness ==
    /\ pc = "filtrado"
    /\ Len(df) = MaxRegistros
    /\ ~filtro.ano.todos
    /\ ~filtro.estado.todos
    /\ ~filtro.agente.todos
    /\ ~filtro.faixa.todos
    /\ Len(df_filtrado) \in 1..(Len(df) - 1)

\* a band chosen in the general selector, no agent selected
C16_WitnessGeral ==
    /\ pc = "filtrado"
    /\ filtro.agente.todos
    /\ opcoes_faixa.tipo = "geral"
    /\ ~filtro.faixa.todos
    /\ Len(df_filtrado) \in 1..(Len(df) - 1)

----------------------------------------------------------------------------
(* C18 *)

\* C18: with an agent and one of its bands selected, the rows of
\* df_filtrado are exactly the rows left by the earlier filters whose
\* faixa_preco is the nome of the selected band.
C18_BandFilterIsLabel ==
    (/\ pc = "filtrado"
     /\ ~filtro.agente.todos
     /\ opcoes_faixa.tipo = "agente"
     /\ ~filtro.faixa.todos) =>
        \E f \in FaixasEscolhidas :
            df_filtrado =
                Linhas(LAMBDA i : AtendeAteAgente(i) /\ faixa_preco[i] = f.nome)

====
